---- MODULE Spec2Model ----
(***************************************************************************)
(* Model of the PointCloud_Visualizer scripts: the four PointCloudVisualizer*)
(* classes (open3d, pyvista, plotly with labels, plotly with labels and two *)
(* SVM planes) and the two utility functions read_npy_file and             *)
(* get_xyz_ranges.                                                          *)
(*                                                                          *)
(* An optional value (None or a value) is a sequence of length 0 or 1.      *)
(* A float computed by numpy is a record [kind, num, den]: a finite         *)
(* rational num/den, or one of the non-finite results inf, -inf, nan.       *)
(***************************************************************************)
EXTENDS Integers, Sequences, FiniteSets, TLC

VARIABLES variant, self, out, arg

vars == <<variant, self, out, arg>>

----------------------------------------------------------------------------
(* Bounds of the model *)

\* largest number of point records in a sample .las file
MaxPoints == 3
\* coordinates of the sample files of get_xyz_ranges are 0..MaxCoord
MaxCoord == 1
\* largest number of point records in a sample file of get_xyz_ranges
MaxRangePoints == 2
\* plane coefficients handed to plot_plane are -MaxCoef..MaxCoef
MaxCoef == 1

\* number of samples per axis of the plane grid
GridN == 10

----------------------------------------------------------------------------
(* Optional values *)

None == <<>>
Some(v) == <<v>>
IsNone(o) == o = <<>>
Val(o) == o[1]

Range(s) == {s[i] : i \in 1..Len(s)}

RECURSIVE SortedSeq(_)
\* the elements of a finite set of integers in ascending order
SortedSeq(S) ==
    IF S = {} THEN <<>>
    ELSE LET m == CHOOSE x \in S : \A y \in S : x <= y
         IN  <<m>> \o SortedSeq(S \ {m})

\* np.unique: the sorted distinct elements of an array
Unique(a) == SortedSeq(Range(a))

\* np.max replaced by the last element of the array
MaxLast(a) == a[Len(a)]

\* np.min, np.max of a non-empty array
Min(a) == CHOOSE x \in Range(a) : \A y \in Range(a) : x <= y
Max(a) == CHOOSE x \in Range(a) : \A y \in Range(a) : x >= y

\* a[idx] for an index array idx
Take(a, idx) == [k \in 1..Len(idx) |-> a[idx[k]]]

\* np.where(a >= v) in place of np.where(a == v)
WhereGe(a, v) == SelectSeq([i \in 1..Len(a) |-> i], LAMBDA i : a[i] >= v)

\* np.where(a == v): the ascending indices at which a holds v
WhereEq(a, v) == SelectSeq([i \in 1..Len(a) |-> i], LAMBDA i : a[i] = v)

----------------------------------------------------------------------------
(* The .las files: what laspy.read returns is a sequence of point records *)

\* the first class of both planes of visualize, and the second class of each
PlaneClassA == 1
Plane1ClassB == 2
\* the second plane trained on the classes of the first
Plane2ClassBCopied == Plane1ClassB
Plane2ClassB == 3

\* the classification labels of the sample files
Labels == {1, 2, 3}


\* the i-th record of every sample file lies at these coordinates; two of
\* the records share their x and two their y, so ranges and ties both occur
CoordAt(i) == <<i % 2, i \div 2, (i * i) % 3>>

SeqsUpTo(S, n) == UNION {[1..k -> S] : k \in 0..n}

LasFiles ==
    {[i \in 1..Len(ls) |->
        [x |-> CoordAt(i)[1], y |-> CoordAt(i)[2], z |-> CoordAt(i)[3],
         classification |-> ls[i]]] : ls \in SeqsUpTo(Labels, MaxPoints)}

\* las.x, las.y, las.z, las.classification: one entry per point record
LasX(las) == [i \in 1..Len(las) |-> las[i].x]
LasY(las) == [i \in 1..Len(las) |-> las[i].y]
LasZ(las) == [i \in 1..Len(las) |-> las[i].z]
LasClassification(las) == [i \in 1..Len(las) |-> las[i].classification]

\* np.vstack of equally long 1-d arrays: one row per array
Vstack(arrays) == arrays
\* .transpose() of a two-dimensional array
Transpose(m) ==
    [i \in 1..Len(m[1]) |-> [j \in 1..Len(m) |-> m[j][i]]]

\* points = np.vstack((las.x, las.y, las.z)).transpose()
ExtractPoints(las) == Transpose(Vstack(<<LasX(las), LasY(las), LasZ(las)>>))

----------------------------------------------------------------------------
(* The visualizer classes *)

LabelVariants == {"go_label", "two_svm_plane"}
PlainVariants == {"open3d", "pyvista"}
Variants == LabelVariants \cup PlainVariants

\* __init__: only file_path is set; cloud_src and classes_src are history
\* fields recording the file read each attribute was last assigned from
NewVisualizer(file_path) ==
    [file_path |-> file_path, point_cloud |-> None, point_classes |-> None,
     cloud_src |-> None, classes_src |-> None]

\* the result of a call that has not happened
NoCall == [op |-> "none", args |-> <<>>, status |-> "none", value |-> <<>>,
           fig |-> <<>>, shown |-> <<>>, fits |-> <<>>]

Returned(op, args, value) ==
    [NoCall EXCEPT !.op = op, !.args = args, !.status = "returned",
                   !.value = value]
Raised(op, args, exc) ==
    [NoCall EXCEPT !.op = op, !.args = args, !.status = exc]

\* the stages of load_las_file at which the call can raise
LoadFailures(v) ==
    IF v \in LabelVariants
    THEN {"read", "vstack", "classification"}
    ELSE {"read", "vstack"}

\* load_las_file that stores the points and forgets the classes
LoadStoreCloudOnly(v, obj, las) ==
    [obj EXCEPT !.point_cloud = Some(ExtractPoints(las)),
                !.cloud_src = Some(las)]

\* the assignments that end load_las_file
LoadStore(v, obj, las) ==
    IF v \in LabelVariants
    THEN [obj EXCEPT !.point_cloud = Some(ExtractPoints(las)),
                     !.point_classes = Some(LasClassification(las)),
                     !.cloud_src = Some(las), !.classes_src = Some(las)]
    ELSE [obj EXCEPT !.point_cloud = Some(ExtractPoints(las)),
                     !.cloud_src = Some(las)]

\* load_las_file that stores the points as soon as they are extracted,
\* before the classification is
LoadLasFileEager(v, obj, las, fail) ==
    IF fail = "none"
    THEN [self |-> LoadStore(v, obj, las),
          out |-> Returned("load_las_file", <<>>, None)]
    ELSE IF fail = "classification"
    THEN [self |-> [obj EXCEPT !.point_cloud = Some(ExtractPoints(las)),
                               !.cloud_src = Some(las)],
          out |-> Raised("load_las_file", <<>>, "Exception")]
    ELSE [self |-> obj,
          out |-> Raised("load_las_file", <<>>, "Exception")]

\* load_las_file: read, extract, then store; a raise at any stage leaves
\* before the assignments. fail = "none" is the call that does not raise.
LoadLasFileCall(v, obj, las, fail) ==
    IF fail = "none"
    THEN [self |-> LoadStore(v, obj, las),
          out |-> Returned("load_las_file", <<>>, None)]
    ELSE [self |-> obj,
          out |-> Raised("load_las_file", <<>>, "Exception")]

----------------------------------------------------------------------------
(* numpy floats *)

Fin(n, d) == [kind |-> "fin", num |-> n, den |-> d]
Inf == [kind |-> "inf", num |-> 0, den |-> 1]
NegInf == [kind |-> "-inf", num |-> 0, den |-> 1]
NaN == [kind |-> "nan", num |-> 0, den |-> 1]
Flt(i) == Fin(i, 1)

\* np.linspace(lo, hi, n): n evenly spaced samples, both ends included
Linspace(lo, hi, n) ==
    [k \in 1..n |-> Fin((n - 1) * lo + (k - 1) * (hi - lo), n - 1)]

\* np.meshgrid(xs, ys): xx[j][i] = xs[i] and yy[j][i] = ys[j]
MeshX(xs, ys) == [j \in 1..Len(ys) |-> [i \in 1..Len(xs) |-> xs[i]]]
MeshY(xs, ys) == [j \in 1..Len(ys) |-> [i \in 1..Len(xs) |-> ys[j]]]

\* zz = (-d - a * xx - b * yy) / c, element by element, for integer a, b, c, d
PlaneZ(a, b, c, d, xx, yy) ==
    [j \in 1..Len(xx) |-> [i \in 1..Len(xx[j]) |->
        LET x == xx[j][i]
            y == yy[j][i]
            \* -d - a * x - b * y over the denominator x.den * y.den
            n == (0 - d) * x.den * y.den - a * x.num * y.den - b * y.num * x.den
            m == x.den * y.den
        IN  \* array / scalar: numpy divides by zero without raising and
            \* gives inf, -inf or nan
            IF c = 0 THEN (IF n > 0 THEN Inf ELSE IF n < 0 THEN NegInf ELSE NaN)
            ELSE IF c > 0 THEN Fin(n, m * c) ELSE Fin(-n, -(m * c))]]

\* plot_plane: the meshgrid over the two ranges and the z computed on it
PlotPlane(a, b, c, d, x_range, y_range) ==
    LET xs == Linspace(x_range[1], x_range[2], GridN)
        ys == Linspace(y_range[1], y_range[2], GridN)
        xx == MeshX(xs, ys)
        yy == MeshY(xs, ys)
    IN  [xx |-> xx, yy |-> yy, zz |-> PlaneZ(a, b, c, d, xx, yy)]

----------------------------------------------------------------------------
(* get_color_map, train_svm and visualize *)

NoCloudLoaded == "ValueError: No point cloud loaded"
ZeroSizeArray == "ValueError: zero-size array to reduction operation"
FitError == "ValueError: svm.fit"
NotSubscriptable == "TypeError: NoneType is not subscriptable"

\* cmap(i)[:3] of the colormap resampled to n colours
CmapColor(i, n) == [index |-> i, of |-> n]
\* 'rgb({},{},{})'.format(...)
ColorHex(c) == <<"rgb", c.index, c.of>>

\* the dictionary of get_color_map as its items in insertion order; on an
\* object without classes np.unique(None) is the one-element array [None]
ColorMapOf(classes) ==
    IF IsNone(classes)
    THEN <<[cls |-> None, color |-> CmapColor(0, 1)]>>
    ELSE LET u == Unique(Val(classes))
         IN  [k \in 1..Len(u) |->
                 [cls |-> u[k], color |-> CmapColor(k - 1, Len(u))]]

\* class_color_map[cls]
ColorOf(cmap, cls) ==
    (CHOOSE e \in Range(cmap) : e.cls = cls).color

GetColorMapCall(obj) ==
    [self |-> obj,
     out |-> Returned("get_color_map", <<>>, ColorMapOf(obj.point_classes))]

\* f"Class {cls}"
ClassName(cls) == "Class " \o ToString(cls)

\* the go.Scatter3d trace of one class
ScatterOf(cloud, classes, cmap, cls) ==
    LET indices == WhereEq(classes, cls)
        points_class == Take(cloud, indices)
    IN  [type |-> "Scatter3d",
         x |-> [k \in 1..Len(points_class) |-> points_class[k][1]],
         y |-> [k \in 1..Len(points_class) |-> points_class[k][2]],
         z |-> [k \in 1..Len(points_class) |-> points_class[k][3]],
         color |-> ColorHex(ColorOf(cmap, cls)),
         name |-> ClassName(cls)]

\* the loop over unique_classes: one trace per class, in np.unique's order
ClassTraces(cloud, classes, cmap) ==
    LET u == Unique(classes)
    IN  [k \in 1..Len(u) |-> ScatterOf(cloud, classes, cmap, u[k])]

\* the go.Surface trace of a plane
SurfaceOf(grid, colorscale, name) ==
    [type |-> "Surface", x |-> grid.xx, y |-> grid.yy, z |-> grid.zz,
     colorscale |-> colorscale, name |-> name]

\* mask = np.isin(point_classes, [class_a, class_b]) as the kept indices
MaskIndices(classes, class_a, class_b) ==
    SelectSeq([i \in 1..Len(classes) |-> i],
              LAMBDA i : classes[i] \in {class_a, class_b})

\* np.where(classes_filtered == class_a, 1, 0): the two labels swapped
TrainLabelsSwapped(classes_filtered, class_a) ==
    [k \in 1..Len(classes_filtered) |->
        IF classes_filtered[k] = class_a THEN 1 ELSE 0]

\* labels = np.where(classes_filtered == class_a, 0, 1)
TrainLabels(classes_filtered, class_a) ==
    [k \in 1..Len(classes_filtered) |->
        IF classes_filtered[k] = class_a THEN 0 ELSE 1]

\* what train_svm hands to svm.fit
TrainingSet(cloud, classes, class_a, class_b) ==
    LET idx == MaskIndices(classes, class_a, class_b)
    IN  [points |-> Take(cloud, idx),
         labels |-> TrainLabels(Take(classes, idx), class_a)]

\* SVC.fit raises ValueError unless both training labels occur (an empty
\* training set included)
FitRaises(ts) == Cardinality(Range(ts.labels)) < 2

\* the planes (a, b, c, d) a fit may return: one with c # 0, one vertical
SvmCoefs == {<<0, 0, 1, -1>>, <<1, 0, 0, -1>>}

\* train_svm that keeps the filtered points in self.point_cloud
TrainSvmInPlace(obj, class_a, class_b, coef) ==
    IF IsNone(obj.point_classes) \/ IsNone(obj.point_cloud)
    THEN [self |-> obj,
          out |-> Raised("train_svm", <<class_a, class_b>>, NotSubscriptable)]
    ELSE LET ts == TrainingSet(Val(obj.point_cloud), Val(obj.point_classes),
                               class_a, class_b)
             kept == [obj EXCEPT !.point_cloud = Some(ts.points)]
         IN  IF FitRaises(ts)
             THEN [self |-> kept,
                   out |-> [Raised("train_svm", <<class_a, class_b>>, FitError)
                               EXCEPT !.fits = <<ts>>]]
             ELSE [self |-> kept,
                   out |-> [Returned("train_svm", <<class_a, class_b>>, coef)
                               EXCEPT !.fits = <<ts>>]]

\* train_svm; coef is the hyperplane the fit finds when it does not raise
TrainSvmCall(obj, class_a, class_b, coef) ==
    IF IsNone(obj.point_classes) \/ IsNone(obj.point_cloud)
    THEN [self |-> obj,
          out |-> Raised("train_svm", <<class_a, class_b>>, NotSubscriptable)]
    ELSE LET ts == TrainingSet(Val(obj.point_cloud), Val(obj.point_classes),
                               class_a, class_b)
         IN  IF FitRaises(ts)
             THEN [self |-> obj,
                   out |-> [Raised("train_svm", <<class_a, class_b>>, FitError)
                               EXCEPT !.fits = <<ts>>]]
             ELSE [self |-> obj,
                   out |-> [Returned("train_svm", <<class_a, class_b>>, coef)
                               EXCEPT !.fits = <<ts>>]]

PlotPlaneCall(obj, a, b, c, d, x_range, y_range) ==
    [self |-> obj,
     out |-> Returned("plot_plane", <<a, b, c, d, x_range, y_range>>,
                      PlotPlane(a, b, c, d, x_range, y_range))]

\* visualize without the test for a loaded cloud
VisualizePlainUnguarded(v, obj) ==
    [self |-> obj,
     out |-> [Returned("visualize", <<>>, None) EXCEPT
                 !.shown = <<[type |-> v, points |-> obj.point_cloud]>>]]

\* visualize of PointCloudVisualizer.py and PointCloudVisualizer_laspy.py:
\* the renderer (draw_geometries, Plotter.show) gets the whole cloud
VisualizePlain(v, obj) ==
    IF IsNone(obj.point_cloud)
    THEN [self |-> obj, out |-> Raised("visualize", <<>>, NoCloudLoaded)]
    ELSE [self |-> obj,
          out |-> [Returned("visualize", <<>>, None) EXCEPT
                      !.shown = <<[type |-> v, points |-> Val(obj.point_cloud)]>>]]

\* visualize of PointCloudVisualizer_go_label.py: the class traces, then
\* pio.show(fig)
VisualizeLabels(obj) ==
    IF IsNone(obj.point_cloud) \/ IsNone(obj.point_classes)
    THEN [self |-> obj, out |-> Raised("visualize", <<>>, NoCloudLoaded)]
    ELSE LET cmap == GetColorMapCall(obj).out.value
             traces == ClassTraces(Val(obj.point_cloud),
                                   Val(obj.point_classes), cmap)
         IN  [self |-> obj,
              out |-> [Returned("visualize", <<>>, None) EXCEPT
                          !.fig = traces, !.shown = <<traces>>]]

\* visualize of more_vis/two_svm_plane.py: the class traces, the ranges,
\* then for each plane train_svm, plot_plane and add_trace, then
\* pio.show(fig); a raise on the way leaves the figure unshown
VisualizePlanes(obj, coef1, coef2) ==
    IF IsNone(obj.point_cloud) \/ IsNone(obj.point_classes)
    THEN [self |-> obj, out |-> Raised("visualize", <<>>, NoCloudLoaded)]
    ELSE
    LET cmap == GetColorMapCall(obj).out.value
        cloud == Val(obj.point_cloud)
        traces == ClassTraces(cloud, Val(obj.point_classes), cmap)
    IN  IF Len(cloud) = 0
        THEN [self |-> obj,
              out |-> [Raised("visualize", <<>>, ZeroSizeArray) EXCEPT
                          !.fig = traces]]
        ELSE
        LET xcol == [k \in 1..Len(cloud) |-> cloud[k][1]]
            ycol == [k \in 1..Len(cloud) |-> cloud[k][2]]
            x_range == <<Min(xcol), Max(xcol)>>
            y_range == <<Min(ycol), Max(ycol)>>
            t1 == TrainSvmCall(obj, PlaneClassA, Plane1ClassB, coef1)
        IN  IF t1.out.status # "returned"
            THEN [self |-> t1.self,
                  out |-> [Raised("visualize", <<>>, t1.out.status) EXCEPT
                              !.fig = traces, !.fits = t1.out.fits]]
            ELSE
            LET p1 == t1.out.value
                g1 == PlotPlaneCall(t1.self, p1[1], p1[2], p1[3], p1[4],
                                    x_range, y_range)
                fig1 == Append(traces,
                               SurfaceOf(g1.out.value, "Viridis",
                                         "Plane 1: Class 1 vs Class 2"))
                t2 == TrainSvmCall(g1.self, PlaneClassA, Plane2ClassB, coef2)
            IN  IF t2.out.status # "returned"
                THEN [self |-> t2.self,
                      out |-> [Raised("visualize", <<>>, t2.out.status) EXCEPT
                                  !.fig = fig1,
                                  !.fits = t1.out.fits \o t2.out.fits]]
                ELSE
                LET p2 == t2.out.value
                    g2 == PlotPlaneCall(t2.self, p2[1], p2[2], p2[3], p2[4],
                                        x_range, y_range)
                    fig2 == Append(fig1,
                                   SurfaceOf(g2.out.value, "Cividis",
                                             "Plane 2: Class 1 vs Class 3"))
                IN  [self |-> g2.self,
                     out |-> [Returned("visualize", <<>>, None) EXCEPT
                                 !.fig = fig2, !.shown = <<fig2>>,
                                 !.fits = t1.out.fits \o t2.out.fits]]

VisualizeCall(v, obj, coef1, coef2) ==
    IF v \in PlainVariants THEN VisualizePlain(v, obj)
    ELSE IF v = "go_label" THEN VisualizeLabels(obj)
    ELSE VisualizePlanes(obj, coef1, coef2)

----------------------------------------------------------------------------
(* The calls a script can make on a visualizer *)

\* the sample files on which a stage after the read is let to raise
FailFiles == {las \in LasFiles : Len(las) <= 1}

LoadLasFile ==
    /\ \/ \E las \in LasFiles :
             LET r == LoadLasFileCall(variant, self, las, "none")
             IN  self' = r.self /\ out' = r.out
       \/ \E las \in FailFiles, fail \in LoadFailures(variant) :
             LET r == LoadLasFileCall(variant, self, las, fail)
             IN  self' = r.self /\ out' = r.out
    /\ UNCHANGED <<variant, arg>>

GetColorMap ==
    /\ variant \in LabelVariants
    /\ LET r == GetColorMapCall(self)
       IN  /\ self' = r.self
           /\ out' = r.out
    /\ UNCHANGED <<variant, arg>>

TrainSvm ==
    /\ variant = "two_svm_plane"
    /\ \E class_a \in Labels, class_b \in Labels, coef \in SvmCoefs :
          LET r == TrainSvmCall(self, class_a, class_b, coef)
          IN  /\ self' = r.self
              /\ out' = r.out
    /\ UNCHANGED <<variant, arg>>

\* the range plot_plane is handed on a visualizer
SampleRanges == {<<0, 1>>}

PlotPlaneOnObject ==
    /\ variant = "two_svm_plane"
    /\ \E coef \in SvmCoefs, x_range \in SampleRanges, y_range \in SampleRanges :
          LET r == PlotPlaneCall(self, coef[1], coef[2], coef[3], coef[4],
                                 x_range, y_range)
          IN  /\ self' = r.self
              /\ out' = r.out
    /\ UNCHANGED <<variant, arg>>

Visualize ==
    /\ \E coef1 \in SvmCoefs, coef2 \in SvmCoefs :
          LET r == VisualizeCall(variant, self, coef1, coef2)
          IN  /\ self' = r.self
              /\ out' = r.out
    /\ UNCHANGED <<variant, arg>>

Init ==
    /\ variant \in Variants
    /\ self = NewVisualizer("cloud.las")
    /\ out = NoCall
    /\ arg = <<>>

Next ==
    \/ LoadLasFile
    \/ GetColorMap
    \/ TrainSvm
    \/ PlotPlaneOnObject
    \/ Visualize

Spec == Init /\ [][Next]_vars

----------------------------------------------------------------------------
(* The functions without an object: read_npy_file, get_xyz_ranges and       *)
(* plot_plane as a function of its arguments. The input is drawn by the     *)
(* initial state and the function is applied to it once.                    *)

\* the Exception subclasses np.load and laspy.read raise, and one
\* BaseException that is no Exception
ExceptionClasses == {"OSError", "ValueError"}
BaseExceptionClasses == ExceptionClasses \cup {"KeyboardInterrupt"}

\* the arrays a sample .npy file holds
NpyArrays == SeqsUpTo(0..MaxCoord, MaxRangePoints)

\* what np.load does: it returns the array of the file or raises
NpLoadOutcomes ==
    {[kind |-> "data", data |-> a, exc |-> ""] : a \in NpyArrays}
    \cup {[kind |-> "raise", data |-> <<>>, exc |-> e] : e \in BaseExceptionClasses}

\* read_npy_file with except OSError in place of except Exception
ReadNpyFileNarrow(load) ==
    IF load.kind = "data"
    THEN Returned("read_npy_file", load, Some(load.data))
    ELSE IF load.exc = "OSError"
    THEN [Returned("read_npy_file", load, None) EXCEPT
             !.shown = <<"An error occurred: " \o load.exc>>]
    ELSE Raised("read_npy_file", load, load.exc)

\* read_npy_file: try np.load; except Exception: print and return None
ReadNpyFile(load) ==
    IF load.kind = "data"
    THEN Returned("read_npy_file", load, Some(load.data))
    ELSE IF load.exc \in ExceptionClasses
    THEN [Returned("read_npy_file", load, None) EXCEPT
             !.shown = <<"An error occurred: " \o load.exc>>]
    ELSE Raised("read_npy_file", load, load.exc)

\* the module-level caller: it prints the data when the result is not None
ReadNpyScript(load) ==
    LET r == ReadNpyFile(load)
    IN  IF r.status = "returned" /\ ~IsNone(r.value)
        THEN [r EXCEPT !.shown = r.shown \o
                  <<"Data loaded successfully:", Val(r.value)>>]
        ELSE r

\* the sample files of get_xyz_ranges: every coordinate of every record free
RangeFiles ==
    SeqsUpTo([x : 0..MaxCoord, y : 0..MaxCoord, z : 0..MaxCoord,
              classification : {PlaneClassA}], MaxRangePoints)

\* what laspy.read does: it returns the records of the file or raises
LasReadOutcomes ==
    {[kind |-> "data", data |-> l, exc |-> ""] : l \in RangeFiles}
    \cup {[kind |-> "raise", data |-> <<>>, exc |-> e] : e \in ExceptionClasses}

\* get_xyz_ranges: np.min and np.max of each coordinate array
GetXyzRanges(read) ==
    IF read.kind = "raise"
    THEN Raised("get_xyz_ranges", read, read.exc)
    ELSE LET x == LasX(read.data)
             y == LasY(read.data)
             z == LasZ(read.data)
         IN  IF Len(x) = 0
             THEN Raised("get_xyz_ranges", read, ZeroSizeArray)
             ELSE Returned("get_xyz_ranges", read,
                           [x_range |-> <<Min(x), Max(x)>>,
                            y_range |-> <<Min(y), Max(y)>>,
                            z_range |-> <<Min(z), Max(z)>>])

Coefs == (-MaxCoef)..MaxCoef
\* the ranges (lower, upper) of an axis, as visualize takes them with
\* np.min and np.max
AxisRanges == {r \in (0..MaxCoord) \X (0..MaxCoord) : r[1] <= r[2]}

PlaneInputs ==
    [a : Coefs, b : Coefs, c : Coefs, d : Coefs,
     x_range : AxisRanges, y_range : AxisRanges]

FunInputs ==
    {[fn |-> "read_npy_file", in |-> i] : i \in NpLoadOutcomes}
    \cup {[fn |-> "get_xyz_ranges", in |-> i] : i \in LasReadOutcomes}
    \cup {[fn |-> "plot_plane", in |-> i] : i \in PlaneInputs}

InitFun ==
    /\ variant = "two_svm_plane"
    /\ self = NewVisualizer("cloud.las")
    /\ out = NoCall
    /\ arg \in FunInputs

CallReadNpyFile ==
    /\ out = NoCall
    /\ arg.fn = "read_npy_file"
    /\ out' = ReadNpyScript(arg.in)
    /\ UNCHANGED <<variant, self, arg>>

CallGetXyzRanges ==
    /\ out = NoCall
    /\ arg.fn = "get_xyz_ranges"
    /\ out' = GetXyzRanges(arg.in)
    /\ UNCHANGED <<variant, self, arg>>

CallPlotPlane ==
    /\ out = NoCall
    /\ arg.fn = "plot_plane"
    /\ LET i == arg.in
           r == PlotPlaneCall(self, i.a, i.b, i.c, i.d, i.x_range, i.y_range)
       IN  self' = r.self /\ out' = r.out
    /\ UNCHANGED <<variant, arg>>

NextFun ==
    \/ CallReadNpyFile
    \/ CallGetXyzRanges
    \/ CallPlotPlane

SpecFun == InitFun /\ [][NextFun]_vars

----------------------------------------------------------------------------
(* Properties *)

Loaded == ~IsNone(self.point_cloud)
Readers == {"visualize", "get_color_map", "train_svm", "plot_plane"}

\* C1: in the label-aware visualizers point_cloud and point_classes are
\* both None, or both set from the same file read and then equally long.
C1_CloudAndClassesTogether ==
    variant \in LabelVariants =>
        \/ /\ IsNone(self.point_cloud)
           /\ IsNone(self.point_classes)
        \/ /\ ~IsNone(self.point_cloud)
           /\ ~IsNone(self.point_classes)
           /\ self.cloud_src = self.classes_src
           /\ Val(self.point_cloud) = ExtractPoints(Val(self.cloud_src))
           /\ Val(self.point_classes) = LasClassification(Val(self.classes_src))
           /\ Len(Val(self.point_cloud)) = Len(Val(self.point_classes))

\* a load has failed on a label-aware visualizer that holds a cloud of
\* two or more points
C1_Witness ==
    /\ variant \in LabelVariants
    /\ Loaded
    /\ Len(Val(self.point_cloud)) >= 2
    /\ out.op = "load_las_file"
    /\ out.status # "returned"

\* C2: once a load has succeeded, visualize, get_color_map, train_svm and
\* plot_plane leave point_cloud, point_classes and file_path as they were,
\* whether they return or raise; only load_las_file changes the first two.
C2_ReadOnlyAfterLoad ==
    [][/\ (Loaded /\ out'.op \in Readers) =>
              /\ self'.point_cloud = self.point_cloud
              /\ self'.point_classes = self.point_classes
              /\ self'.file_path = self.file_path
       /\ (Loaded /\ (self'.point_cloud # self.point_cloud
                      \/ self'.point_classes # self.point_classes)) =>
              out'.op = "load_las_file"]_vars

\* train_svm has raised on a loaded visualizer
C2_Witness ==
    /\ Loaded
    /\ out.op = "train_svm"
    /\ out.status = FitError

\* C3: visualize on an object no load has succeeded on raises the
\* "No point cloud loaded" ValueError and shows nothing; the renderer is
\* invoked only after a successful load.
C3_NoRenderBeforeLoad ==
    [][out'.op = "visualize" =>
          /\ IsNone(self.cloud_src) =>
                (out'.status = NoCloudLoaded /\ out'.shown = <<>>)
          /\ out'.shown # <<>> => ~IsNone(self.cloud_src)]_vars

\* visualize has raised on an object that was never loaded
C3_Witness ==
    /\ IsNone(self.cloud_src)
    /\ out.op = "visualize"
    /\ out.status = NoCloudLoaded

\* the figure is the class traces followed by Plane 1 and then Plane 2
PlanesFigure(f, classes) ==
    LET n == Len(f)
    IN  /\ n = Cardinality(Range(classes)) + 2
        /\ \A k \in 1..(n - 2) : f[k].type = "Scatter3d"
        /\ f[n - 1].type = "Surface"
        /\ f[n - 1].name = "Plane 1: Class 1 vs Class 2"
        /\ f[n].type = "Surface"
        /\ f[n].name = "Plane 2: Class 1 vs Class 3"

\* the figure is shown once, complete, with the planes fitted to classes
\* 1 and 2 and then to classes 1 and 3
ShowsPlanesFigure ==
    LET cloud == Val(self.point_cloud)
        classes == Val(self.point_classes)
    IN  /\ out.status = "returned"
        /\ Len(out.shown) = 1
        /\ out.shown[1] = out.fig
        /\ PlanesFigure(out.fig, classes)
        /\ out.fits = <<TrainingSet(cloud, classes, 1, 2),
                        TrainingSet(cloud, classes, 1, 3)>>

\* C4 as claimed: for every loaded cloud (here: of one point or more)
\* visualize of two_svm_plane shows one figure with the class traces, then
\* Plane 1, then Plane 2.
C4_AsClaimed ==
    (variant = "two_svm_plane" /\ out.op = "visualize" /\ Loaded
        /\ Len(Val(self.point_cloud)) >= 1) =>
        ShowsPlanesFigure

\* C4 amended: visualize of two_svm_plane shows that figure exactly when the
\* loaded cloud holds a point of class 1, one of class 2 and one of class 3;
\* on any other loaded cloud it raises and shows no figure.
C4_PlanesWhenClassesPresent ==
    (variant = "two_svm_plane" /\ out.op = "visualize" /\ Loaded) =>
        IF {1, 2, 3} \subseteq Range(Val(self.point_classes))
        THEN ShowsPlanesFigure
        ELSE out.status # "returned" /\ out.shown = <<>>

\* the figure with both planes has been shown
C4_Witness ==
    /\ variant = "two_svm_plane"
    /\ out.op = "visualize"
    /\ Loaded
    /\ {1, 2, 3} \subseteq Range(Val(self.point_classes))
    /\ Len(out.shown) = 1
    /\ Len(out.shown[1]) = 5

\* C5: read_npy_file returns None when the load raises an Exception and
\* the loaded data otherwise; the caller's success branch runs only on a
\* result that is not None.
C5_ReadNpyNeverRaises ==
    out.op = "read_npy_file" =>
        LET load == out.args
            success == Len(out.shown) >= 1
                       /\ out.shown[1] = "Data loaded successfully:"
        IN  /\ (load.kind = "raise" /\ load.exc \in ExceptionClasses) =>
                   (out.status = "returned" /\ IsNone(out.value) /\ ~success)
            /\ load.kind = "data" =>
                   /\ out.status = "returned"
                   /\ out.value = Some(load.data)
                   /\ success
                   /\ out.shown[2] = load.data

\* the load has raised a ValueError and the function has returned None
C5_Witness ==
    /\ out.op = "read_npy_file"
    /\ out.args.kind = "raise"
    /\ out.args.exc = "ValueError"
    /\ out.status = "returned"
    /\ IsNone(out.value)

\* r is the pair (min, max) of the coordinate array a
IsMinMax(r, a) ==
    /\ Len(r) = 2
    /\ \A i \in 1..Len(a) : r[1] <= a[i] /\ a[i] <= r[2]
    /\ \E i \in 1..Len(a) : a[i] = r[1]
    /\ \E i \in 1..Len(a) : a[i] = r[2]
    /\ r[1] <= r[2]

\* C6: what get_xyz_ranges returns has exactly the keys x_range, y_range
\* and z_range, each the pair (min, max) of that coordinate over the points.
C6_RangesAreMinMax ==
    (out.op = "get_xyz_ranges" /\ out.status = "returned") =>
        LET las == out.args.data
        IN  /\ DOMAIN out.value = {"x_range", "y_range", "z_range"}
            /\ IsMinMax(out.value.x_range, [i \in 1..Len(las) |-> las[i].x])
            /\ IsMinMax(out.value.y_range, [i \in 1..Len(las) |-> las[i].y])
            /\ IsMinMax(out.value.z_range, [i \in 1..Len(las) |-> las[i].z])

\* ranges of a file whose points differ in x and agree in z
C6_Witness ==
    /\ out.op = "get_xyz_ranges"
    /\ out.status = "returned"
    /\ Len(out.args.data) >= 2
    /\ out.value.x_range[1] < out.value.x_range[2]
    /\ out.value.z_range[1] = out.value.z_range[2]

\* how often the point p occurs among the points of trace t
InTrace(t, p) ==
    Cardinality({k \in 1..Len(t.x) : <<t.x[k], t.y[k], t.z[k]>> = p})
\* how often the point p occurs in the cloud with label l
InCloud(cloud, classes, l, p) ==
    Cardinality({i \in 1..Len(cloud) : cloud[i] = p /\ classes[i] = l})

\* C7: the scatter traces of the label-aware visualize partition the cloud
\* by label: one non-empty trace per label present, in ascending label
\* order, named "Class <label>", holding exactly the points of that label.
C7_TracesPartitionByLabel ==
    (variant \in LabelVariants /\ out.op = "visualize" /\ Loaded) =>
        LET cloud == Val(self.point_cloud)
            classes == Val(self.point_classes)
            present == Range(classes)
            m == Cardinality(present)
            IsTraceOf(t, l) ==
                /\ t.type = "Scatter3d"
                /\ t.name = ClassName(l)
                /\ Len(t.x) > 0
                /\ Len(t.y) = Len(t.x)
                /\ Len(t.z) = Len(t.x)
                /\ Len(t.x) = Cardinality({i \in 1..Len(classes) : classes[i] = l})
                /\ \A p \in Range(cloud) :
                      InTrace(t, p) = InCloud(cloud, classes, l, p)
        IN  /\ Len(out.fig) >= m
            /\ \A k \in 1..Len(out.fig) :
                  out.fig[k].type = "Scatter3d" <=> k <= m
            /\ \A k \in 1..m : \E l \in present : IsTraceOf(out.fig[k], l)
            /\ \A l \in present : \E k \in 1..m : IsTraceOf(out.fig[k], l)
            /\ \A k1 \in 1..m, k2 \in 1..m, l1 \in present, l2 \in present :
                  (k1 < k2 /\ IsTraceOf(out.fig[k1], l1)
                           /\ IsTraceOf(out.fig[k2], l2)) => l1 < l2

\* a figure with the traces of two classes, one of them of two points
C7_Witness ==
    /\ variant \in LabelVariants
    /\ out.op = "visualize"
    /\ Loaded
    /\ Len(out.fig) >= 2
    /\ out.fig[2].type = "Scatter3d"
    /\ Len(out.fig[1].x) = 2

\* the training set is the points of class_a or class_b, each with its
\* coordinates, class_a labelled 0 and class_b labelled 1
TrainsOnBoth(ts, cloud, classes, class_a, class_b) ==
    LET sel == SelectSeq([i \in 1..Len(classes) |-> i],
                         LAMBDA i : classes[i] = class_a \/ classes[i] = class_b)
    IN  /\ Len(ts.points) = Len(sel)
        /\ Len(ts.labels) = Len(sel)
        /\ \A k \in 1..Len(sel) :
              /\ ts.points[k] = cloud[sel[k]]
              /\ classes[sel[k]] = class_a => ts.labels[k] = 0
              /\ classes[sel[k]] = class_b => ts.labels[k] = 1
        /\ (class_a \in Range(classes) /\ class_b \in Range(classes)) =>
              Range(ts.labels) = {0, 1}

\* C8 as claimed: for all class_a and class_b train_svm trains on exactly
\* the points of the two classes, class_a labelled 0 and class_b labelled 1.
C8_AsClaimed ==
    (out.op = "train_svm" /\ Loaded) =>
        /\ Len(out.fits) = 1
        /\ TrainsOnBoth(out.fits[1], Val(self.point_cloud),
                        Val(self.point_classes), out.args[1], out.args[2])

\* C8 amended: the same for class_a # class_b.
C8_TrainsOnBothClasses ==
    (out.op = "train_svm" /\ Loaded /\ out.args[1] # out.args[2]) =>
        /\ Len(out.fits) = 1
        /\ TrainsOnBoth(out.fits[1], Val(self.point_cloud),
                        Val(self.point_classes), out.args[1], out.args[2])

\* train_svm has returned on a cloud that holds both classes and a third
C8_Witness ==
    /\ out.op = "train_svm"
    /\ Loaded
    /\ out.status = "returned"
    /\ out.args[1] # out.args[2]
    /\ Cardinality(Range(Val(self.point_classes))) = 3
    /\ Len(out.fits[1].points) = 2

\* sum, product and equality of finite floats; denominators stay positive
FAdd(p, q) == Fin(p.num * q.den + q.num * p.den, p.den * q.den)
FMul(p, q) == Fin(p.num * q.num, p.den * q.den)
FEq(p, q) ==
    /\ p.kind = "fin"
    /\ q.kind = "fin"
    /\ p.num * q.den = q.num * p.den

\* C9 as claimed: for all coefficients plot_plane returns a GridN by GridN
\* grid whose x and y run from the lower to the upper end of their ranges
\* and whose every point satisfies a*x + b*y + c*z + d = 0.
C9_AsClaimed ==
    out.op = "plot_plane" =>
        LET a == out.args[1]
            b == out.args[2]
            c == out.args[3]
            d == out.args[4]
            x_range == out.args[5]
            y_range == out.args[6]
            g == out.value
        IN  /\ Len(g.xx) = 10 /\ Len(g.yy) = 10 /\ Len(g.zz) = 10
            /\ \A j \in 1..10 :
                  /\ Len(g.xx[j]) = 10 /\ Len(g.yy[j]) = 10 /\ Len(g.zz[j]) = 10
                  /\ FEq(g.xx[j][1], Flt(x_range[1]))
                  /\ FEq(g.xx[j][10], Flt(x_range[2]))
                  /\ FEq(g.yy[1][j], Flt(y_range[1]))
                  /\ FEq(g.yy[10][j], Flt(y_range[2]))
                  /\ \A i \in 1..10 :
                        /\ g.zz[j][i].kind = "fin"
                        /\ FEq(FAdd(FAdd(FMul(Flt(a), g.xx[j][i]),
                                         FMul(Flt(b), g.yy[j][i])),
                                    FAdd(FMul(Flt(c), g.zz[j][i]), Flt(d))),
                               Flt(0))

\* C10: a load that raises leaves point_cloud and point_classes as they
\* were: a never loaded object stays unloaded and visualize still raises its
\* ValueError, a loaded one keeps its cloud and visualize shows it as before.
C10_LoadAllOrNothing ==
    [][(out'.op = "load_las_file" /\ out'.status # "returned") =>
          /\ self'.point_cloud = self.point_cloud
          /\ self'.point_classes = self.point_classes
          /\ LET coef == <<0, 0, 1, -1>>
                 before == VisualizeCall(variant, self, coef, coef).out
                 after == VisualizeCall(variant, self', coef, coef).out
             IN  /\ after = before
                 /\ IsNone(self.cloud_src) => after.status = NoCloudLoaded]_vars

\* a reload has failed on a visualizer that holds a cloud
C10_Witness ==
    /\ Loaded
    /\ Len(Val(self.point_cloud)) >= 1
    /\ out.op = "load_las_file"
    /\ out.status # "returned"

====
